---------------------------- MODULE Spec2Model ----------------------------
(* The JSON-file storage engine of the marketplace API                      *)
(* (src/api/src/storage/index.js): one Collection (a JSON array file, a     *)
(* cache keyed on the file's modification time, per-field indexes and an    *)
(* in-process FIFO mutex) driven by concurrent callers, with I/O failures   *)
(* and process crashes.                                                     *)
EXTENDS Integers, Sequences, FiniteSets, TLC

\* ------------------------------------------------------------------ bounds
Procs == {1, 2}              \* concurrent callers (request handlers)
MaxOps == 2                  \* operations started over a behaviour
MaxClock == 1                \* the wall clock runs 0..MaxClock
Values == {"a", "b"}         \* values of the indexed field f
CallerIds == {0}             \* ids a caller passes inside a record (nanoid yields 1, 2, ...)
MaxInits == 2                \* initStorage calls over a behaviour of the manager
MaxReqs == 3                 \* requests served over a behaviour of the manager
MaxSeqOps == 3               \* calls of a one-after-another sequence
MaxHttp == 3                 \* HTTP requests received over a behaviour of the API

\* ------------------------------------------------------------- the state
VARIABLES
  fs,            \* the data directory: path -> file (or NoFile)
  cache,         \* Collection.cache: [present, recs]; present = FALSE is null
  lastModified,  \* Collection.lastModified (NoTime is null)
  indexes,       \* Collection.indexes: field -> (value -> list of records)
  locked,        \* Mutex.locked
  queue,         \* Mutex.queue: the waiting callers, oldest first
  now,           \* the wall clock (Date and file modification times)
  nextId,        \* the next id nanoid yields
  task,          \* per caller: position in its operation, locals, last result
  started,       \* operations started so far
  savePre,       \* history: the state a save found when it entered its critical section
  liveIds,       \* history: ids returned by create and not since deleted
  probe,         \* history: create returned, then restart, then findById
  storageInstance, \* the module's singleton: 0 is null, m is the m-th Storage
  storages,      \* the Storage objects made so far: each one's collections map
  colls,         \* the Collection objects made so far: name, filePath, cache
  mutexes,       \* the Mutex objects made so far: locked, queue
  disk,          \* the data directory of the manager: path -> file
  req,           \* per request handler: position, handles held, last outcome
  reqs,          \* requests begun so far
  db,            \* the API's collections: users, programs, orders, payments
  handler        \* per HTTP request: route, arguments, position, locals, reply

\* the state of the one Collection of Spec and SpecEnv
cvars == <<fs, cache, lastModified, indexes, locked, queue, now, nextId, task,
           started, savePre, liveIds, probe>>

\* the state of the storage manager of SpecManager
mvars == <<storageInstance, storages, colls, mutexes, disk, req, reqs>>

\* the state of the route handlers of SpecApp
avars == <<db, handler>>

vars == <<fs, cache, lastModified, indexes, locked, queue, now, nextId, task,
          started, savePre, liveIds, probe,
          storageInstance, storages, colls, mutexes, disk, req, reqs,
          db, handler>>

\* -------------------------------------------------------------- constants
NoTime == -1
FilePath == "json"
IndexFields == {"f"}
NoFile == [exists |-> FALSE]
Null == [null |-> TRUE]
NoOp == [name |-> "none", id |-> 0, arg |-> <<>>, v |-> "", upsert |-> FALSE]
NoOut == [status |-> "none", val |-> Null]
NoPre == [set |-> FALSE]
NoProbe == [stage |-> "none"]
NullCache == [present |-> FALSE, recs |-> <<>>]

\* the temporary sibling file of save
Mutant_TmpPath == FilePath
TmpPath == "tmp"

\* ------------------------------------------------------- pure functions
\* object spread {...a, ...b}: b's keys override a's
Spread(a, b) ==
  [k \in (DOMAIN a) \cup (DOMAIN b) |-> IF k \in DOMAIN b THEN b[k] ELSE a[k]]

\* JSON.stringify(data, null, 2): the text of a complete array
Stringify(data, mtime) ==
  [exists |-> TRUE, recs |-> data, complete |-> TRUE, mtime |-> mtime]

\* a file opened for writing and not yet written: truncated, no closing bracket
Truncated(mtime) ==
  [exists |-> TRUE, recs |-> <<>>, complete |-> FALSE, mtime |-> mtime]

\* JSON.parse(content) of a text that parses
Parse(file) == file.recs

\* the text of a file, whatever its modification time
Text(file) == [recs |-> file.recs, complete |-> file.complete]

\* data.findIndex(item => item.id === id), 1-based; 0 is -1
IndexOfId(data, id) ==
  IF \E i \in DOMAIN data : data[i].id = id
  THEN CHOOSE i \in DOMAIN data :
         data[i].id = id /\ \A j \in DOMAIN data : data[j].id = id => i <= j
  ELSE 0

\* data.splice(index, 1)
Mutant_RemoveAt(data, i) ==
  [j \in 1..(Len(data) - 1) |-> IF j = i THEN data[Len(data)] ELSE data[j]]
RemoveAt(data, i) ==
  [j \in 1..(Len(data) - 1) |-> IF j < i THEN data[j] ELSE data[j + 1]]

HasField(r, k) == k \in DOMAIN r

\* the records of data whose field k is v, in order
Bucket(data, k, v) ==
  LET Holds(r) == HasField(r, k) /\ r[k] = v IN SelectSeq(data, Holds)

\* _buildIndexes(data)
BuildIndexes(data) ==
  [k \in IndexFields |->
     [v \in {data[i][k] : i \in {j \in DOMAIN data : HasField(data[j], k)}} |->
        Bucket(data, k, v)]]

\* this.indexes[field]?.get(value) || []
IndexLookup(ix, k, v) ==
  IF k \in DOMAIN ix /\ v \in DOMAIN ix[k] THEN ix[k][v] ELSE <<>>

\* create's new record: { id: nanoid(12), ...item, created_at, updated_at }
NewItem(gen, item, t1, t2) ==
  Spread(Spread([id |-> gen], item), [created_at |-> t1, updated_at |-> t2])

\* update's record: { ...oldItem, ...updates, id, created_at, updated_at }
Mutant_UpdatedItem(oldItem, updates, t) ==
  Spread(Spread(oldItem, updates), [updated_at |-> t])
UpdatedItem(oldItem, updates, t) ==
  Spread(Spread(oldItem, updates),
         [id |-> oldItem.id, created_at |-> oldItem.created_at, updated_at |-> t])


\* fs.rename(from, to) on the directory
Rename(dir, from, to) ==
  IF from = to THEN dir ELSE [dir EXCEPT ![to] = dir[from], ![from] = NoFile]

\* ---------------------------------------------------- the storage manager
\* the names Storage.init configures, in the order of the object literal
ConfiguredSeq == <<"users", "programs", "orders", "payments">>
Configured == {ConfiguredSeq[i] : i \in DOMAIN ConfiguredSeq}
Position(n) == CHOOSE i \in DOMAIN ConfiguredSeq : ConfiguredSeq[i] = n

\* the getters Storage defines
Accessors == {"users", "programs", "orders", "payments"}

\* a property every object inherits from Object.prototype
Inherited == {"constructor"}

\* the names handlers ask for: two configured ones, one the guide routes use,
\* one inherited
Names == {"users", "orders", "guides", "constructor"}

Handlers == {1, 2}

\* path.join(dataDir, `${name}.json`)
PathOf(name) == <<name, "json">>

\* `${this.filePath}.tmp`
TmpOf(path) == Append(path, "tmp")

Paths == {PathOf(n) : n \in Configured} \cup {TmpOf(PathOf(n)) : n \in Configured}

\* the file _writeFileSync([]) leaves
EmptyArrayFile == [exists |-> TRUE, len |-> 0]

\* new Collection(name, dataDir, indexes): this.cache = null is -1
NewCollection(name) == [name |-> name, filePath |-> PathOf(name), cache |-> -1]

\* new Mutex()
NewMutex == [locked |-> FALSE, queue |-> <<>>]

\* this.mutex of the i-th Collection: the Mutex its constructor made
Mutant_MutexOf(i) == 1
MutexOf(i) == i

\* Storage.get(name): if (!this.collections[name]) throw ...; on the object
\* literal of init an inherited property is found and is truthy
Get(collections, name) ==
  IF name \in DOMAIN collections
  THEN [kind |-> "collection", id |-> collections[name]]
  ELSE IF name \in Inherited THEN [kind |-> "inherited", id |-> 0]
  ELSE [kind |-> "not_found", id |-> 0]

\* storage.<name>: a getter that calls get(name), an inherited property, or
\* undefined
Accessor(collections, name) ==
  IF name \in Accessors THEN Get(collections, name)
  ELSE IF name \in Inherited THEN [kind |-> "inherited", id |-> 0]
  ELSE [kind |-> "undefined", id |-> 0]

IdleReq ==
  [pc |-> "idle", storage |-> 0, coll |-> 0, name |-> "", via |-> "",
   data |-> 0, out |-> "none"]

\* ---------------------------------------------------------------- inputs
Items == {[f |-> "a"], [id |-> 0]}
Updates == {[id |-> 7, created_at |-> 9, f |-> "b"]}
IdChoices == CallerIds \cup {1}

Mutators == {"create", "update", "delete"}
LoadPcs == {"load_stat", "load_read", "load_absent"}
SavePcs == {"save_lock", "save_write", "save_writing", "save_rename",
            "save_stat", "save_unlock"}

IdleTask ==
  [pc |-> "idle", op |-> NoOp, mtime |-> NoTime, data |-> <<>>, val |-> Null,
   old |-> Null, release |-> FALSE, thrown |-> FALSE, absent |-> FALSE,
   seen |-> {}, out |-> NoOut]

\* ------------------------------------------------------------------ Init
\* a record an earlier run of the process created from a seed record with its own id
Seeded == NewItem(1, [id |-> 0], 0, 0)

\* the state after `new Collection(name, dataDir, indexes)` on the file an
\* earlier run left
CollectionInit ==
  /\ fs = [p \in {FilePath, TmpPath} |->
             IF p = FilePath THEN Stringify(<<Seeded>>, 0) ELSE NoFile]
  /\ cache = NullCache
  /\ lastModified = NoTime
  /\ indexes = <<>>
  /\ locked = FALSE
  /\ queue = <<>>
  /\ now = 0
  /\ nextId = 1
  /\ task = [p \in Procs |-> IdleTask]
  /\ started = 0
  /\ savePre = NoPre
  /\ liveIds = {}
  /\ probe = NoProbe

\* the module before index.js has called initStorage: let storageInstance = null
ManagerInit ==
  /\ storageInstance = 0
  /\ storages = <<>>
  /\ colls = <<>>
  /\ mutexes = <<>>
  /\ disk = [path \in Paths |-> NoFile]
  /\ req = [c \in Handlers |-> IdleReq]
  /\ reqs = 0

\* ---- the route handlers: inputs and initial state
Http == 1..MaxHttp
ProgramIds == {0, 1}
OrderIds == {0}
Keys == {0}
Emails == {"e"}
WebhookStatuses == {"succeeded", "failed"}
Final == {"succeeded", "failed"}
NoneFound == -1

\* the collections after the seed (an admin, programs) and one POST /api/orders
\* for program 0 (a pending order, its payment intent); rev counts the updates
\* of a record
\* (updated_at), next is the next id nanoid yields
SeedDb ==
  [users |-> <<[id |-> 0, email |-> "admin"]>>,
   programs |-> <<[id |-> 0], [id |-> 1]>>,
   orders |-> <<[id |-> 0, program_id |-> 0, status |-> "pending", rev |-> 0]>>,
   payments |-> <<[id |-> 0, order_id |-> 0, status |-> "created",
                   idempotency_key |-> 0, rev |-> 0]>>,
   next |-> 1]

IdleHandler ==
  [route |-> "none", pc |-> "idle", id |-> 0, status |-> "", email |-> "",
   found |-> NoneFound, order |-> NoneFound, res |-> 0]

AppInit ==
  /\ db = SeedDb
  /\ handler = [h \in Http |-> IdleHandler]

Init == CollectionInit /\ ManagerInit /\ AppInit

\* ----------------------------------------------------------------- Mutex
\* the position a waiter resumes at when release() hands it the lock
Granted(pc) == IF pc = "load_wait" THEN "load_stat" ELSE "save_lock"

\* Mutex.release(): next() resumes the head of the queue
Grant(t) ==
  IF queue = <<>> THEN t ELSE [t EXCEPT ![Head(queue)].pc = Granted(@)]

\* ------------------------------------------------------ history variables
OthersIdle(p) == \A q \in Procs \ {p} : task[q].pc = "idle"

History(p, status, val) ==
  LET op == task[p].op IN
  /\ liveIds' = IF status = "ok" /\ op.name = "create" THEN liveIds \cup {val.id}
                ELSE IF status = "ok" /\ op.name = "delete" /\ val = TRUE
                THEN liveIds \ {op.id}
                ELSE liveIds
  /\ probe' = IF status = "ok" /\ op.name = "create" /\ OthersIdle(p)
              THEN [stage |-> "created", rec |-> val]
              ELSE IF probe.stage = "probing" /\ probe.by = p
              THEN [stage |-> "probed", rec |-> probe.rec, status |-> status,
                    found |-> val]
              ELSE probe

\* an operation starts: the probe follows create, restart, findById(id) only
ProbeOnStart(p, op) ==
  IF probe.stage = "restarted" /\ op.name = "findById" /\ op.id = probe.rec.id
  THEN [stage |-> "probing", rec |-> probe.rec, by |-> p]
  ELSE NoProbe

\* ---------------------------------------------- returns and continuations
Done(t, status, val) ==
  [t EXCEPT !.pc = "idle", !.out = [status |-> status, val |-> val],
            !.data = <<>>, !.val = Null, !.old = Null, !.mtime = NoTime,
            !.release = FALSE, !.thrown = FALSE, !.seen = {}]

\* finally { this.mutex.release() }, then the operation returns or throws
ReturnOp(p, status, val) ==
  /\ task' = Grant([task EXCEPT ![p] = Done(@, status, val)])
  /\ locked' = (queue # <<>>)
  /\ queue' = IF queue = <<>> THEN queue ELSE Tail(queue)
  /\ History(p, status, val)

\* load returned and the operation calls save(data): release, then acquire again
Mutant_EnterSave(p, data, val, old) ==
  /\ task' = [task EXCEPT ![p] =
                [@ EXCEPT !.pc = "save_lock",
                          !.data = data, !.val = val, !.old = old]]
  /\ locked' = TRUE
  /\ queue' = queue
  /\ UNCHANGED <<liveIds, probe>>
EnterSave(p, data, val, old) ==
  /\ task' = Grant([task EXCEPT ![p] =
                [@ EXCEPT !.pc = IF queue = <<>> THEN "save_lock" ELSE "save_wait",
                          !.data = data, !.val = val, !.old = old]])
  /\ locked' = TRUE
  /\ queue' = IF queue = <<>> THEN queue ELSE Append(Tail(queue), p)
  /\ UNCHANGED <<liveIds, probe>>

\* upsert's load returned and upsert calls update or create (op), whose load
\* acquires the mutex again
Delegate(p, op) ==
  /\ task' = Grant([task EXCEPT ![p] =
                [@ EXCEPT !.pc = IF queue = <<>> THEN "load_stat" ELSE "load_wait",
                          !.op = op]])
  /\ locked' = TRUE
  /\ queue' = IF queue = <<>> THEN queue ELSE Append(Tail(queue), p)
  /\ UNCHANGED <<liveIds, probe>>

\* --------------------------------------------------------- starting a call
\* history, kept for findByIndex calls: the arrays the file has held since the
\* call started
SeenAtStart(op) ==
  IF op.name = "findByIndex" /\ fs[FilePath].exists /\ fs[FilePath].complete
  THEN {Parse(fs[FilePath])} ELSE {}

\* the file has come to hold recs while the calls of t run
Witnessed(t, recs) ==
  [q \in Procs |->
     IF t[q].op.name = "findByIndex" /\ t[q].pc # "idle"
     THEN [t[q] EXCEPT !.seen = @ \cup {recs}] ELSE t[q]]

\* every operation begins `await this.load()`, whose first act is mutex.acquire()
Mutant_Start(p, op) ==
  /\ task[p].pc = "idle"
  /\ UNCHANGED <<mvars, avars>>
  /\ \A q \in Procs : q < p => task[q].pc # "idle"
  /\ started < MaxOps
  /\ started' = started + 1
  /\ task' = [task EXCEPT ![p] = [IdleTask EXCEPT !.pc = "load_stat", !.op = op]]
  /\ locked' = TRUE
  /\ queue' = queue
  /\ probe' = ProbeOnStart(p, op)
  /\ UNCHANGED <<fs, cache, lastModified, indexes, now, nextId, savePre,
                 liveIds>>
StartWith(p, op, max) ==
  /\ task[p].pc = "idle"
  /\ UNCHANGED <<mvars, avars>>
  /\ \A q \in Procs : q < p => task[q].pc # "idle"
  /\ started < max
  /\ started' = started + 1
  /\ task' = [task EXCEPT ![p] =
                [IdleTask EXCEPT !.pc = IF locked THEN "load_wait" ELSE "load_stat",
                                 !.op = op, !.seen = SeenAtStart(op)]]
  /\ locked' = TRUE
  /\ queue' = IF locked THEN Append(queue, p) ELSE queue
  /\ probe' = ProbeOnStart(p, op)
  /\ UNCHANGED <<fs, cache, lastModified, indexes, now, nextId, savePre,
                 liveIds>>

Start(p, op) == StartWith(p, op, MaxOps)

StartCreate(p) ==
  \E item \in Items : Start(p, [NoOp EXCEPT !.name = "create", !.arg = item])

\* create of a record that carries no id of its own
StartCreatePlain(p) ==
  Start(p, [NoOp EXCEPT !.name = "create", !.arg = [f |-> "a"]])

StartUpdate(p) ==
  \E id \in IdChoices, updates \in Updates :
    Start(p, [NoOp EXCEPT !.name = "update", !.id = id, !.arg = updates])

StartDelete(p) ==
  \E id \in IdChoices : Start(p, [NoOp EXCEPT !.name = "delete", !.id = id])

StartFindById(p) ==
  \E id \in IdChoices : Start(p, [NoOp EXCEPT !.name = "findById", !.id = id])

\* upsert(item => item.id === id, item)
StartUpsert(p) ==
  \E id \in IdChoices :
    Start(p, [NoOp EXCEPT !.name = "upsert", !.id = id, !.arg = [f |-> "a"]])

StartFindByIndex(p) ==
  \E v \in Values : Start(p, [NoOp EXCEPT !.name = "findByIndex", !.v = v])

\* ------------------------------------------- what each operation does next
\* new Date(), and the time the file system stamps a write with: the clock
\* has not gone back since it was last read
ClockRead == {t \in {now, now + 1} : t <= MaxClock}

\* create, after load returned data
CreateAfterLoad(p, data) ==
  \E t1 \in ClockRead : \E t2 \in {t \in {t1, t1 + 1} : t <= MaxClock} :
    /\ now' = t2
    /\ nextId' = nextId + 1
    /\ LET newItem == NewItem(nextId, task[p].op.arg, t1, t2)
       IN EnterSave(p, Append(data, newItem), newItem, Null)

\* update, after load returned data
UpdateAfterLoad(p, data) ==
  LET index == IndexOfId(data, task[p].op.id) IN
  /\ UNCHANGED nextId
  /\ IF index = 0
     THEN /\ UNCHANGED now
          /\ ReturnOp(p, "ok", Null)
     ELSE \E t \in ClockRead :
            /\ now' = t
            /\ LET item == UpdatedItem(data[index], task[p].op.arg, t)
               IN EnterSave(p, [data EXCEPT ![index] = item], item, data[index])

\* delete, after load returned data
Mutant_DeleteAfterLoad(p, data) ==
  /\ UNCHANGED <<now, nextId>>
  /\ EnterSave(p, data, TRUE, Null)
DeleteAfterLoad(p, data) ==
  LET index == IndexOfId(data, task[p].op.id) IN
  /\ UNCHANGED <<now, nextId>>
  /\ IF index = 0
     THEN ReturnOp(p, "ok", FALSE)
     ELSE EnterSave(p, RemoveAt(data, index), TRUE, Null)

\* findById, after load returned data
FindByIdAfterLoad(p, data) ==
  LET index == IndexOfId(data, task[p].op.id) IN
  /\ UNCHANGED <<now, nextId>>
  /\ ReturnOp(p, "ok", IF index = 0 THEN Null ELSE data[index])

\* upsert, after load returned data: existing = data.find(predicate), then
\* return this.update(existing.id, item) or return this.create(item)
UpsertAfterLoad(p, data) ==
  LET index == IndexOfId(data, task[p].op.id) IN
  /\ UNCHANGED <<now, nextId>>
  /\ IF index # 0
     THEN Delegate(p, [task[p].op EXCEPT !.name = "update", !.id = data[index].id,
                                         !.upsert = TRUE])
     ELSE Delegate(p, [task[p].op EXCEPT !.name = "create", !.upsert = TRUE])

\* findAll returns what load returned
FindAllAfterLoad(p, data) ==
  /\ UNCHANGED <<now, nextId>>
  /\ ReturnOp(p, "ok", data)

\* findByIndex, after load returned: reads the indexes load left (ix)
FindByIndexAfterLoad(p, ix) ==
  /\ UNCHANGED <<now, nextId>>
  /\ ReturnOp(p, "ok", IndexLookup(ix, "f", task[p].op.v))

\* load returned [...this.cache] (data) with indexes ix: the caller goes on
AfterLoad(p, data, ix) ==
  CASE task[p].op.name = "create" -> CreateAfterLoad(p, data)
    [] task[p].op.name = "update" -> UpdateAfterLoad(p, data)
    [] task[p].op.name = "delete" -> DeleteAfterLoad(p, data)
    [] task[p].op.name = "findById" -> FindByIdAfterLoad(p, data)
    [] task[p].op.name = "findByIndex" -> FindByIndexAfterLoad(p, ix)
    [] task[p].op.name = "findAll" -> FindAllAfterLoad(p, data)
    [] task[p].op.name = "upsert" -> UpsertAfterLoad(p, data)

\* ------------------------------------------------------------------ load
\* a rejected fs call with code ENOENT: the catch block of load runs next
Absent(p) ==
  /\ task' = [task EXCEPT ![p].pc = "load_absent", ![p].absent = TRUE]
  /\ UNCHANGED <<locked, queue, now, nextId, liveIds, probe>>

\* catch (error) { ... throw error; } finally { this.mutex.release(); }
Mutant_LoadThrow(p) ==
  /\ cache' = NullCache
  /\ UNCHANGED <<lastModified, indexes, now, nextId>>
  /\ ReturnOp(p, "err", Null)
LoadThrow(p) ==
  /\ UNCHANGED <<cache, lastModified, indexes, now, nextId>>
  /\ ReturnOp(p, "err", Null)

\* const stat = await fs.stat(filePath); the cache-hit test; stat rejects with
\* ENOENT when the file is absent, or with another error (EACCES, EIO)
LoadStat(p) ==
  /\ task[p].pc = "load_stat"
  /\ UNCHANGED <<mvars, avars>>
  /\ UNCHANGED <<fs, started, savePre>>
  /\ \/ /\ UNCHANGED <<cache, lastModified, indexes>>
        /\ IF ~fs[FilePath].exists
           THEN Absent(p)
           ELSE IF cache.present /\ lastModified = fs[FilePath].mtime
           THEN AfterLoad(p, cache.recs, indexes)
           ELSE /\ task' = [task EXCEPT ![p].pc = "load_read",
                                        ![p].mtime = fs[FilePath].mtime]
                /\ UNCHANGED <<locked, queue, now, nextId, liveIds, probe>>
     \/ LoadThrow(p)

\* readFile, JSON.parse, cache, lastModified, _buildIndexes; readFile rejects
\* with ENOENT when the file is absent, or with another error; a text that
\* does not parse throws out of load
LoadRead(p) ==
  /\ task[p].pc = "load_read"
  /\ UNCHANGED <<mvars, avars>>
  /\ UNCHANGED <<fs, started, savePre>>
  /\ \/ IF ~fs[FilePath].exists
        THEN /\ UNCHANGED <<cache, lastModified, indexes>>
             /\ Absent(p)
        ELSE IF fs[FilePath].complete
        THEN /\ cache' = [present |-> TRUE, recs |-> Parse(fs[FilePath])]
             /\ lastModified' = task[p].mtime
             /\ indexes' = BuildIndexes(Parse(fs[FilePath]))
             /\ AfterLoad(p, Parse(fs[FilePath]), BuildIndexes(Parse(fs[FilePath])))
        ELSE LoadThrow(p)
     \/ LoadThrow(p)

\* catch (error) { if (error.code === 'ENOENT') { this.cache = [];
\* this._buildIndexes([]); return []; } }
Mutant_LoadAbsent(p) ==
  /\ task[p].pc = "load_absent"
  /\ UNCHANGED <<mvars, avars>>
  /\ UNCHANGED <<fs, started, savePre>>
  /\ LoadThrow(p)
LoadAbsent(p) ==
  /\ task[p].pc = "load_absent"
  /\ UNCHANGED <<mvars, avars>>
  /\ cache' = [present |-> TRUE, recs |-> <<>>]
  /\ indexes' = BuildIndexes(<<>>)
  /\ UNCHANGED <<fs, lastModified, started, savePre>>
  /\ AfterLoad(p, <<>>, BuildIndexes(<<>>))

\* ------------------------------------------------------------------ save
\* what save found when it entered its critical section, and what it is to write
Snapshot(data) ==
  [set |-> TRUE, file |-> fs[FilePath], cache |-> cache,
   lastModified |-> lastModified, indexes |-> indexes,
   new |-> Text(Stringify(data, 0))]

\* release = await lockfile.lock(filePath, ...); a failure is logged and ignored
Mutant_SaveLock(p) ==
  /\ task[p].pc = "save_lock"
  /\ UNCHANGED <<mvars, avars>>
  /\ savePre' = Snapshot(task[p].data)
  /\ UNCHANGED <<fs, cache, lastModified, indexes, now, nextId, started>>
  /\ \/ /\ fs[FilePath].exists
        /\ task' = [task EXCEPT ![p].pc = "save_write", ![p].release = TRUE]
        /\ UNCHANGED <<locked, queue, liveIds, probe>>
     \/ ReturnOp(p, "err", Null)
SaveLock(p) ==
  /\ task[p].pc = "save_lock"
  /\ UNCHANGED <<mvars, avars>>
  /\ \E ok \in {b \in BOOLEAN : b => fs[FilePath].exists} :
       /\ task' = [task EXCEPT ![p].pc = "save_write", ![p].release = ok]
  /\ savePre' = Snapshot(task[p].data)
  /\ UNCHANGED <<fs, cache, lastModified, indexes, locked, queue, now, nextId,
                 started, liveIds, probe>>

\* the finally block of save: release the file lock if held, then the mutex;
\* thrown tells whether the try block threw
Mutant_Finally(p, thrown) ==
  /\ UNCHANGED nextId
  /\ IF thrown THEN ReturnOp(p, "err", Null)
     ELSE ReturnOp(p, "ok", task[p].val)
Finally(p, thrown) ==
  /\ UNCHANGED nextId
  /\ IF task[p].release
     THEN /\ task' = [task EXCEPT ![p].pc = "save_unlock", ![p].thrown = thrown]
          /\ UNCHANGED <<locked, queue, liveIds, probe>>
     ELSE IF thrown THEN ReturnOp(p, "err", Null)
          ELSE ReturnOp(p, "ok", task[p].val)

\* fs.writeFile(tmpPath, ...) opens the temp file, truncating it
SaveWriteOpen(p) ==
  /\ task[p].pc = "save_write"
  /\ UNCHANGED <<mvars, avars>>
  /\ fs' = [fs EXCEPT ![TmpPath] = Truncated(now)]
  /\ task' = [task EXCEPT ![p].pc = "save_writing"]
  /\ UNCHANGED <<cache, lastModified, indexes, locked, queue, now, nextId,
                 started, savePre, liveIds, probe>>

\* fs.writeFile completes, or fails (disk full) and throws
SaveWriteEnd(p) ==
  /\ task[p].pc = "save_writing"
  /\ UNCHANGED <<mvars, avars>>
  /\ UNCHANGED <<cache, lastModified, indexes, started, savePre>>
  /\ \/ \E t \in ClockRead :
          /\ now' = t
          /\ fs' = [fs EXCEPT ![TmpPath] = Stringify(task[p].data, t)]
          /\ task' = [task EXCEPT ![p].pc = "save_rename"]
          /\ UNCHANGED <<locked, queue, nextId, liveIds, probe>>
     \/ /\ UNCHANGED <<fs, now>>
        /\ Finally(p, TRUE)

\* this.cache = data
Mutant_SavedCache(p) == cache
SavedCache(p) == [present |-> TRUE, recs |-> task[p].data]

\* await fs.rename(tmpPath, filePath); this.cache = data; or rename throws
SaveRename(p) ==
  /\ task[p].pc = "save_rename"
  /\ UNCHANGED <<mvars, avars>>
  /\ UNCHANGED <<lastModified, indexes, started, savePre>>
  /\ \/ /\ fs' = Rename(fs, TmpPath, FilePath)
        /\ cache' = SavedCache(p)
        /\ task' = Witnessed([task EXCEPT ![p].pc = "save_stat"], task[p].data)
        /\ UNCHANGED <<locked, queue, now, nextId, liveIds, probe>>
     \/ /\ UNCHANGED <<fs, cache, now>>
        /\ Finally(p, TRUE)

\* const stat = await fs.stat(filePath); lastModified; _buildIndexes(data);
\* or stat throws
SaveStat(p) ==
  /\ task[p].pc = "save_stat"
  /\ UNCHANGED <<mvars, avars>>
  /\ UNCHANGED <<fs, cache, now, started, savePre>>
  /\ \/ /\ fs[FilePath].exists
        /\ lastModified' = fs[FilePath].mtime
        /\ indexes' = BuildIndexes(task[p].data)
        /\ Finally(p, FALSE)
     \/ /\ UNCHANGED <<lastModified, indexes>>
        /\ Finally(p, TRUE)

\* await release() inside finally: when it throws, mutex.release() is not run
SaveUnlock(p) ==
  /\ task[p].pc = "save_unlock"
  /\ UNCHANGED <<mvars, avars>>
  /\ UNCHANGED <<fs, cache, lastModified, indexes, now, nextId, started, savePre>>
  /\ \/ IF task[p].thrown THEN ReturnOp(p, "err", Null)
           ELSE ReturnOp(p, "ok", task[p].val)
     \/ /\ task' = [task EXCEPT ![p] = Done(@, "err", Null)]
        /\ UNCHANGED <<locked, queue>>
        /\ History(p, "err", Null)

\* ----------------------------------------------------------- environment
\* if (!existsSync(filePath)) this._writeFileSync([]): writeFileSync opens the
\* file, truncating it, and then writes; a process that died in between and
\* started again finds the empty text
Constructed(dir, t) ==
  IF dir[FilePath].exists THEN {dir}
  ELSE {[dir EXCEPT ![FilePath] = Stringify(<<>>, t)],
        [dir EXCEPT ![FilePath] = Truncated(t)]}

\* the process dies and starts again: a new Collection on the same directory
CrashRestart ==
  /\ fs' \in Constructed(fs, now)
  /\ UNCHANGED <<mvars, avars>>
  /\ cache' = NullCache
  /\ lastModified' = NoTime
  /\ indexes' = <<>>
  /\ locked' = FALSE
  /\ queue' = <<>>
  /\ task' = [p \in Procs |-> IdleTask]
  /\ probe' = IF probe.stage = "created"
              THEN [stage |-> "restarted", rec |-> probe.rec]
              ELSE NoProbe
  /\ UNCHANGED <<now, nextId, started, savePre, liveIds>>

\* the collection file is removed from the data directory (a data reset by the
\* operator while the process runs)
Unlink ==
  /\ fs[FilePath].exists
  /\ UNCHANGED <<mvars, avars>>
  /\ fs' = [fs EXCEPT ![FilePath] = NoFile]
  /\ UNCHANGED <<cache, lastModified, indexes, locked, queue, now, nextId, task,
                 started, savePre, liveIds, probe>>

Next ==
  \/ \E p \in Procs : StartCreate(p)
  \/ \E p \in Procs : StartUpdate(p)
  \/ \E p \in Procs : StartDelete(p)
  \/ \E p \in Procs : StartFindById(p)
  \/ \E p \in Procs : StartFindByIndex(p)
  \/ \E p \in Procs : LoadStat(p)
  \/ \E p \in Procs : LoadRead(p)
  \/ \E p \in Procs : SaveLock(p)
  \/ \E p \in Procs : SaveWriteOpen(p)
  \/ \E p \in Procs : SaveWriteEnd(p)
  \/ \E p \in Procs : SaveRename(p)
  \/ \E p \in Procs : SaveStat(p)
  \/ \E p \in Procs : SaveUnlock(p)
  \/ CrashRestart

Spec == Init /\ [][Next]_vars

\* the same program in a data directory from which the file can disappear
NextEnv ==
  \/ \E p \in Procs : StartCreatePlain(p)
  \/ \E p \in Procs : StartFindById(p)
  \/ \E p \in Procs : LoadStat(p)
  \/ \E p \in Procs : LoadRead(p)
  \/ \E p \in Procs : LoadAbsent(p)
  \/ \E p \in Procs : SaveLock(p)
  \/ \E p \in Procs : SaveWriteOpen(p)
  \/ \E p \in Procs : SaveWriteEnd(p)
  \/ \E p \in Procs : SaveRename(p)
  \/ \E p \in Procs : SaveStat(p)
  \/ \E p \in Procs : SaveUnlock(p)
  \/ CrashRestart
  \/ Unlink

SpecEnv == Init /\ [][NextEnv]_vars

\* one caller that awaits each call before it makes the next
SeqCalls ==
  {[NoOp EXCEPT !.name = "create", !.arg = item] : item \in Items}
  \cup {[NoOp EXCEPT !.name = "update", !.id = id, !.arg = updates] :
          id \in IdChoices, updates \in Updates}
  \cup {[NoOp EXCEPT !.name = "delete", !.id = id] : id \in IdChoices}
  \cup {[NoOp EXCEPT !.name = "findAll"]}

SeqStart ==
  /\ \A q \in Procs : task[q].pc = "idle"
  /\ \E op \in SeqCalls : StartWith(1, op, MaxSeqOps)

NextSeq ==
  \/ SeqStart
  \/ \E p \in Procs : LoadStat(p)
  \/ \E p \in Procs : LoadRead(p)
  \/ \E p \in Procs : SaveLock(p)
  \/ \E p \in Procs : SaveWriteOpen(p)
  \/ \E p \in Procs : SaveWriteEnd(p)
  \/ \E p \in Procs : SaveRename(p)
  \/ \E p \in Procs : SaveStat(p)
  \/ \E p \in Procs : SaveUnlock(p)

SpecSeq == Init /\ [][NextSeq]_vars

\* upsert calls running together with delete calls
NextUpsert ==
  \/ \E p \in Procs : StartUpsert(p)
  \/ \E p \in Procs : StartDelete(p)
  \/ \E p \in Procs : LoadStat(p)
  \/ \E p \in Procs : LoadRead(p)
  \/ \E p \in Procs : SaveLock(p)
  \/ \E p \in Procs : SaveWriteOpen(p)
  \/ \E p \in Procs : SaveWriteEnd(p)
  \/ \E p \in Procs : SaveRename(p)
  \/ \E p \in Procs : SaveStat(p)
  \/ \E p \in Procs : SaveUnlock(p)

SpecUpsert == Init /\ [][NextUpsert]_vars

\* ======================================================================
\* The storage manager (Storage, initStorage, getStorage)
\* ======================================================================
\* one request handler has the outcome of what it last asked for
ManagerStart(c) ==
  /\ req[c].pc = "idle"
  /\ \A d \in Handlers : d < c => req[d].pc # "idle"
  /\ reqs < MaxReqs
  /\ reqs' = reqs + 1

\* storageInstance = new Storage(dataDir).init(): a new Storage whose init
\* makes a new Collection (and so a new Mutex) for each configured name; each
\* Collection constructor writes [] where its file is missing
InitStorage ==
  /\ Len(storages) < MaxInits
  /\ storages' = Append(storages,
                        [n \in Configured |-> Len(colls) + Position(n)])
  /\ colls' = colls \o [i \in 1..Len(ConfiguredSeq) |->
                          NewCollection(ConfiguredSeq[i])]
  /\ mutexes' = mutexes \o [i \in 1..Len(ConfiguredSeq) |-> NewMutex]
  /\ disk' = [path \in Paths |->
                IF path \in {PathOf(n) : n \in Configured} /\ ~disk[path].exists
                THEN EmptyArrayFile ELSE disk[path]]
  /\ storageInstance' = Len(storages) + 1
  /\ UNCHANGED <<req, reqs>>
  /\ UNCHANGED <<cvars, avars>>

\* const storage = getStorage()
GetStorage(c) ==
  /\ ManagerStart(c)
  /\ req' = [req EXCEPT ![c] =
               IF storageInstance = 0
               THEN [IdleReq EXCEPT !.out = "not_initialized"]
               ELSE [IdleReq EXCEPT !.pc = "storage", !.storage = storageInstance]]
  /\ UNCHANGED <<storageInstance, storages, colls, mutexes, disk>>
  /\ UNCHANGED <<cvars, avars>>

\* mutex.acquire() of Collection i by handler c
Acquire(mx, i, c) ==
  IF mx[MutexOf(i)].locked
  THEN [mx EXCEPT ![MutexOf(i)].queue = Append(@, c)]
  ELSE [mx EXCEPT ![MutexOf(i)].locked = TRUE]

\* mutex.release() of Collection i
Release(mx, i) ==
  IF mx[MutexOf(i)].queue # <<>>
  THEN [mx EXCEPT ![MutexOf(i)].queue = Tail(@)]
  ELSE [mx EXCEPT ![MutexOf(i)].locked = FALSE]

\* the handler release() resumes, if any
Resumed(mx, i) ==
  IF mx[MutexOf(i)].queue # <<>> THEN {Head(mx[MutexOf(i)].queue)} ELSE {}

\* where a resumed waiter goes on
Resume(r) ==
  [r EXCEPT !.pc = IF @ = "load_wait" THEN "load" ELSE "save_write"]

\* storage.get(name).create(...) or storage.<name>.create(...): the lookup, and
\* on a Collection the acquire that begins its load
Request(c) ==
  /\ req[c].pc = "storage"
  /\ \E name \in Names, via \in {"get", "accessor"} :
       LET found == IF via = "get" THEN Get(storages[req[c].storage], name)
                    ELSE Accessor(storages[req[c].storage], name)
       IN IF found.kind = "collection"
          THEN /\ mutexes' = Acquire(mutexes, found.id, c)
               /\ req' = [req EXCEPT ![c].pc =
                            IF mutexes[MutexOf(found.id)].locked
                            THEN "load_wait" ELSE "load",
                          ![c].coll = found.id, ![c].name = name, ![c].via = via]
          ELSE /\ req' = [req EXCEPT ![c] =
                            [IdleReq EXCEPT !.out = found.kind, !.name = name,
                                            !.via = via]]
               /\ UNCHANGED mutexes
  /\ UNCHANGED <<storageInstance, storages, colls, disk, reqs>>
  /\ UNCHANGED <<cvars, avars>>

\* load of Collection i reads its file into its cache and releases; create
\* appends its record and calls save, which acquires again
ManagerLoad(c) ==
  LET i == req[c].coll
      data == IF disk[colls[i].filePath].exists
              THEN disk[colls[i].filePath].len ELSE 0
      released == Release(mutexes, i)
  IN /\ req[c].pc = "load"
     /\ colls' = [colls EXCEPT ![i].cache = data]
     /\ mutexes' = Acquire(released, i, c)
     /\ req' = [d \in Handlers |->
                  IF d = c
                  THEN [req[c] EXCEPT !.pc = IF released[MutexOf(i)].locked
                                             THEN "save_wait" ELSE "save_write",
                                      !.data = data + 1]
                  ELSE IF d \in Resumed(mutexes, i) THEN Resume(req[d])
                  ELSE req[d]]
     /\ UNCHANGED <<storageInstance, storages, disk, reqs>>
     /\ UNCHANGED <<cvars, avars>>

\* await fs.writeFile(tmpPath, ...)
ManagerSaveWrite(c) ==
  LET i == req[c].coll IN
  /\ req[c].pc = "save_write"
  /\ disk' = [disk EXCEPT ![TmpOf(colls[i].filePath)] =
                [exists |-> TRUE, len |-> req[c].data]]
  /\ req' = [req EXCEPT ![c].pc = "save_rename"]
  /\ UNCHANGED <<storageInstance, storages, colls, mutexes, reqs>>
  /\ UNCHANGED <<cvars, avars>>

\* await fs.rename(tmpPath, filePath); this.cache = data; release; the rename
\* rejects with ENOENT when the temp file is gone
ManagerSaveRename(c) ==
  LET i == req[c].coll
      tmp == TmpOf(colls[i].filePath)
  IN /\ req[c].pc = "save_rename"
     /\ IF disk[tmp].exists
        THEN /\ disk' = [disk EXCEPT ![colls[i].filePath] = disk[tmp],
                                     ![tmp] = NoFile]
             /\ colls' = [colls EXCEPT ![i].cache = req[c].data]
        ELSE UNCHANGED <<disk, colls>>
     /\ mutexes' = Release(mutexes, i)
     /\ req' = [d \in Handlers |->
                  IF d = c
                  THEN [req[c] EXCEPT !.pc = "idle",
                                      !.out = IF disk[tmp].exists THEN "ok" ELSE "err"]
                  ELSE IF d \in Resumed(mutexes, i) THEN Resume(req[d])
                  ELSE req[d]]
     /\ UNCHANGED <<storageInstance, storages, reqs>>
     /\ UNCHANGED <<cvars, avars>>

ManagerNext ==
  \/ InitStorage
  \/ \E c \in Handlers : GetStorage(c)
  \/ \E c \in Handlers : Request(c)
  \/ \E c \in Handlers : ManagerLoad(c)
  \/ \E c \in Handlers : ManagerSaveWrite(c)
  \/ \E c \in Handlers : ManagerSaveRename(c)

SpecManager == Init /\ [][ManagerNext]_vars

\* ======================================================================
\* Properties
\* ======================================================================
FileRecs == Parse(fs[FilePath])
Quiescent == \A p \in Procs : task[p].pc = "idle"
InCritical == \E p \in Procs : task[p].pc \in LoadPcs \cup SavePcs
Restarted == started > 0 /\ \A p \in Procs : task[p].pc = "idle" /\ task[p].op.name = "none"

\* ---- C1 -------------------------------------------------------------
\* one call applied to the array s on its own; an update that returned null
\* read no clock, so in a serial order where it finds its record any time fits
ApplyCall(p, s) ==
  LET c == task[p]
      index == IndexOfId(s, c.op.id)
  IN CASE c.op.name = "create" -> {Append(s, c.out.val)}
       [] c.op.name = "update" ->
            IF index = 0 THEN {s}
            ELSE {[s EXCEPT ![index] = UpdatedItem(s[index], c.op.arg, t)] :
                    t \in IF c.out.val = Null THEN 0..MaxClock
                          ELSE {c.out.val.updated_at}}
       [] c.op.name = "delete" -> IF index = 0 THEN {s} ELSE {RemoveAt(s, index)}
       [] OTHER -> {s}

RECURSIVE Serial(_, _)
\* the arrays obtained by applying the calls one at a time, in every order
Serial(calls, s) ==
  IF calls = {} THEN {s}
  ELSE UNION {UNION {Serial(calls \ {c}, s2) : s2 \in ApplyCall(c, s)} : c \in calls}

\* the callers whose call is the one made since Init
Calls == {p \in Procs : task[p].op.name # "none"}

\* C1: once concurrently issued create/update/delete calls have all returned,
\* the file holds the array some one-at-a-time order of those calls produces
\* (stated for calls whose argument carries no id of its own).
C1_Serializable ==
  ( /\ Quiescent
    /\ started = Cardinality(Calls)
    /\ \A c \in Calls : /\ task[c].op.name \in Mutators
                         /\ task[c].out.status = "ok"
                         /\ ~HasField(task[c].op.arg, "id") )
  => FileRecs \in Serial(Calls, <<Seeded>>)

\* ---- C2 -------------------------------------------------------------
\* C2: a record a create returned is in the file unless a delete of its id
\* has returned true since (stated for the ids the engine generated).
C2_NoLostWrite ==
  \A id \in liveIds \ CallerIds : IndexOfId(FileRecs, id) # 0

\* ---- C3 -------------------------------------------------------------
\* C3: with a crash possible at every step of save, the canonical file always
\* holds a complete array: the one save found or the one save was given.
C3_AtomicReplace ==
  /\ fs[FilePath].exists
  /\ fs[FilePath].complete
  /\ savePre.set => Text(fs[FilePath]) \in {Text(savePre.file), savePre.new}

\* the process died after the temp write and before the rename
C3_Witness ==
  /\ Restarted
  /\ savePre.set
  /\ fs[TmpPath].exists /\ fs[TmpPath].complete
  /\ Text(fs[TmpPath]) = savePre.new
  /\ Text(fs[FilePath]) = Text(savePre.file)
  /\ Text(savePre.file) # savePre.new

\* ---- C4 -------------------------------------------------------------
SaveThrows(p) ==
  /\ task[p].pc \in SavePcs
  /\ task'[p].pc = "idle"
  /\ task'[p].out.status = "err"

\* C4: when save throws, the canonical file, the cache, the recorded
\* modification time and the indexes are what they were when save started.
C4_FailedSaveChangesNothing ==
  [][\A p \in Procs :
       SaveThrows(p) =>
         /\ fs'[FilePath] = savePre.file
         /\ cache' = savePre.cache
         /\ lastModified' = savePre.lastModified
         /\ indexes' = savePre.indexes]_vars

\* ---- C5 -------------------------------------------------------------
\* C5: outside critical sections a valid cache (populated, recorded time equal
\* to the file's) equals the file content element for element.
C5_ValidCacheEqualsFile ==
  (~InCritical /\ cache.present /\ lastModified = fs[FilePath].mtime)
  => cache.recs = FileRecs

\* two saves left the file with the modification time it had before them
C5_Witness ==
  /\ ~InCritical
  /\ cache.present
  /\ lastModified = fs[FilePath].mtime
  /\ fs[FilePath].mtime = 0
  /\ Len(cache.recs) = 3
  /\ \A p \in Procs : task[p].op.name = "create" /\ task[p].out.status = "ok"

\* ---- C6 -------------------------------------------------------------
FindByIndexReturns(p) ==
  /\ task[p].pc \in LoadPcs
  /\ task'[p].pc = "idle"
  /\ task'[p].op.name = "findByIndex"
  /\ task'[p].out.status = "ok"

\* C6: findByIndex(f, v) returns exactly the records of findAll() (the array a
\* load returns at that moment) whose field f is v, each once, also after
\* operations that failed part-way.
C6_IndexMatchesFindAll ==
  [][\A p \in Procs :
       FindByIndexReturns(p) =>
         task'[p].out.val = Bucket(cache'.recs, "f", task'[p].op.v)]_vars

\* ---- C7 -------------------------------------------------------------
\* C7: no two records of the collection have the same id, whatever record
\* create was given.
C7_UniqueIds ==
  \A i, j \in DOMAIN FileRecs : i # j => FileRecs[i].id # FileRecs[j].id

\* ---- C8 -------------------------------------------------------------
UpdateBuilds(p) ==
  /\ task[p].pc \in LoadPcs
  /\ task'[p].pc \in {"save_wait", "save_lock"}
  /\ task'[p].op.name = "update"

UpdateReturns(p) ==
  /\ task[p].pc \in SavePcs
  /\ task'[p].pc = "idle"
  /\ task'[p].op.name = "update"
  /\ task'[p].out.status = "ok"

\* C8: update stores and returns a record with the old id and created_at, the
\* old fields overridden by those of updates, and updated_at the time of the
\* update.
C8_UpdateKeepsIdentity ==
  [][\A p \in Procs :
       /\ UpdateBuilds(p) => task'[p].val.updated_at = now'
       /\ UpdateReturns(p) =>
            LET oldItem == task[p].old
                updates == task[p].op.arg
                r == task'[p].out.val
                index == IndexOfId(task[p].data, oldItem.id)
            IN /\ r = task[p].val
               /\ r.id = oldItem.id
               /\ r.created_at = oldItem.created_at
               /\ DOMAIN r = (DOMAIN oldItem) \cup (DOMAIN updates) \cup {"updated_at"}
               /\ \A k \in (DOMAIN r) \ {"id", "created_at", "updated_at"} :
                    r[k] = IF k \in DOMAIN updates THEN updates[k] ELSE oldItem[k]
               /\ index # 0
               /\ Parse(fs'[FilePath])[index] = r]_vars

\* an update whose updates carry another id and created_at has returned
C8_Witness ==
  \E p \in Procs :
    /\ task[p].pc = "idle"
    /\ task[p].op.name = "update"
    /\ task[p].out.status = "ok"
    /\ task[p].out.val # Null
    /\ HasField(task[p].op.arg, "id") /\ HasField(task[p].op.arg, "created_at")
    /\ task[p].out.val.id = task[p].op.id
    /\ task[p].out.val.f = "b"
    /\ \E i \in DOMAIN FileRecs : FileRecs[i] = task[p].out.val

\* ---- C9 -------------------------------------------------------------
\* the load of a delete, update or findById returns an array in which no record
\* has the id asked for
NotFound(p) ==
  /\ task[p].pc \in LoadPcs
  /\ task'[p].pc \notin LoadPcs
  /\ task'[p].op.name \in {"delete", "update", "findById"}
  /\ task'[p].out.status # "err"
  /\ IndexOfId(cache'.recs, task'[p].op.id) = 0

NotFoundResult(p) ==
  /\ task'[p].pc = "idle"
  /\ task'[p].out.status = "ok"
  /\ task'[p].out.val = IF task'[p].op.name = "delete" THEN FALSE ELSE Null

\* C9 as stated: for an id that matches no record the operation returns
\* false/null without error and file, cache and indexes are unchanged.
C9_NotFoundChangesNothing ==
  [][\A p \in Procs :
       NotFound(p) =>
         /\ NotFoundResult(p)
         /\ fs' = fs
         /\ cache' = cache /\ lastModified' = lastModified /\ indexes' = indexes]_vars

\* C9 amended: for an id that matches no record the operation returns
\* false/null without error straight from its load, with no save: the file and
\* its modification time are unchanged; cache and indexes are unchanged on a
\* cache hit and otherwise are what the load read from the file.
C9_NotFoundDoesNotSave ==
  [][\A p \in Procs :
       NotFound(p) =>
         /\ NotFoundResult(p)
         /\ fs' = fs
         /\ IF cache.present /\ lastModified = fs[FilePath].mtime
            THEN cache' = cache /\ lastModified' = lastModified /\ indexes' = indexes
            ELSE /\ cache' = [present |-> TRUE, recs |-> FileRecs]
                 /\ lastModified' = fs[FilePath].mtime
                 /\ indexes' = BuildIndexes(FileRecs)]_vars

\* a delete and an update of an id that matches no record have returned
C9_Witness ==
  /\ task[1].pc = "idle" /\ task[1].op.name = "delete"
  /\ task[1].out = [status |-> "ok", val |-> FALSE]
  /\ task[2].pc = "idle" /\ task[2].op.name = "update"
  /\ task[2].out = [status |-> "ok", val |-> Null]
  /\ FileRecs = <<Seeded>>

\* ---- C10 ------------------------------------------------------------
\* C10: create returns a record, the process restarts, and findById of that
\* record's id returns an equal record.
C10_CreateSurvivesRestart ==
  (probe.stage = "probed" /\ probe.status = "ok") => probe.found = probe.rec

\* ---- C11 ------------------------------------------------------------
WaitPcs == {"load_wait", "save_wait"}
Holding(p) == task[p].pc \in LoadPcs \cup SavePcs
Holders == {p \in Procs : Holding(p)}
RestartStep ==
  \A p \in Procs : task'[p].pc = "idle" /\ task'[p].op.name = "none"

\* C11: at most one caller is inside a load or save critical section; it holds
\* the mutex, the others wait in the queue, and every step that touches the
\* files, the cache, the recorded time or the indexes is taken while exactly
\* one caller is inside a section.
C11_OneCriticalSection ==
  [][/\ Cardinality(Holders) <= 1
     /\ Cardinality(Holders') <= 1
     /\ (Holders' # {}) => locked'
     /\ \A i \in DOMAIN queue' : task'[queue'[i]].pc \in WaitPcs
     /\ (fs' # fs \/ cache' # cache \/ lastModified' # lastModified
           \/ indexes' # indexes)
        => (RestartStep \/ Cardinality(Holders) = 1)]_vars

\* one caller is writing the temp file while the other waits for the mutex
C11_Witness ==
  /\ task[1].pc = "save_writing"
  /\ task[2].pc = "load_wait"
  /\ queue = <<2>>
  /\ locked

\* ---- C12 ------------------------------------------------------------
\* p begins a critical section in this step
Enters(p) ==
  /\ task'[p].pc \in {"load_stat", "save_lock"}
  /\ task'[p].pc # task[p].pc

\* p starts to wait in this step
Enqueues(p) == task[p].pc \notin WaitPcs /\ task'[p].pc \in WaitPcs

\* the queue without its head
Rest == IF queue = <<>> THEN <<>> ELSE Tail(queue)

C13_MutexReleasedOnEveryPath ==
  locked => Holders # {}

\* ---- C14 ------------------------------------------------------------
SaveReturnsOk(p) ==
  /\ task[p].pc \in SavePcs
  /\ task'[p].pc = "idle"
  /\ task'[p].out.status = "ok"

\* what a completed save(data) leaves
Saved(p) ==
  /\ Text(fs'[FilePath]) = Text(Stringify(task[p].data, 0))
  /\ cache' = [present |-> TRUE, recs |-> task[p].data]
  /\ lastModified' = fs'[FilePath].mtime
  /\ indexes' = BuildIndexes(task[p].data)

\* C14: a save that could not take the file lock goes on to write, and a save
\* that returns leaves the file, cache, recorded time and indexes of its data
\* whether it held the file lock or not.
C14_LockFailureIsNotFatal ==
  [][\A p \in Procs :
       /\ (task[p].pc = "save_lock" /\ task'[p].pc # task[p].pc /\ ~RestartStep)
          => task'[p].pc = "save_write"
       /\ SaveReturnsOk(p) => Saved(p)]_vars

\* a save without the file lock has renamed its temp file onto the canonical
\* path and set the cache
C14_Witness ==
  \E p \in Procs :
    /\ task[p].pc = "save_stat"
    /\ ~task[p].release
    /\ Text(fs[FilePath]) = Text(Stringify(task[p].data, 0))
    /\ Text(fs[FilePath]) # Text(savePre.file)
    /\ cache.recs = task[p].data

\* ---- C15 ------------------------------------------------------------
LoadThrows(p) ==
  /\ task[p].pc \in LoadPcs
  /\ task'[p].pc = "idle"
  /\ task'[p].op.name # "none"
  /\ task'[p].out.status = "err"

\* C15: a load that meets a text that does not parse throws, and a load that
\* throws (stat, read or parse error) has changed neither the cache nor the
\* recorded time nor the indexes, at its stat step or at its failing step.
C15_FailedLoadChangesNothing ==
  [][\A p \in Procs :
       /\ ( /\ task[p].pc = "load_read"
            /\ fs[FilePath].exists /\ ~fs[FilePath].complete
            /\ task'[p].pc # task[p].pc /\ ~RestartStep ) => LoadThrows(p)
       /\ (LoadThrows(p) \/ (task[p].pc = "load_stat" /\ task'[p].pc = "load_read"))
          => /\ cache' = cache
             /\ lastModified' = lastModified
             /\ indexes' = indexes]_vars

\* a findById met a file that does not parse and threw
C15_Witness ==
  \E p \in Procs :
    /\ task[p].pc = "idle"
    /\ task[p].op.name = "findById"
    /\ task[p].out.status = "err"
    /\ fs[FilePath].exists /\ ~fs[FilePath].complete
    /\ ~cache.present

\* ---- C16 ------------------------------------------------------------
\* C16: a load that finds no file throws nothing and returns the empty array
\* (findById returns null, create goes on with the one new record), leaving
\* the cache and the indexes empty; the save of that create renames a file
\* holding exactly the new record onto the canonical path, and the create
\* returns that record.
C16_AbsentFileIsEmpty ==
  [][\A p \in Procs :
       /\ (task[p].pc = "load_absent" /\ task'[p].pc # task[p].pc /\ ~RestartStep)
          => /\ cache' = [present |-> TRUE, recs |-> <<>>]
             /\ indexes' = BuildIndexes(<<>>)
             /\ task'[p].op.name = "findById"
                => task'[p].pc = "idle" /\ task'[p].out = [status |-> "ok", val |-> Null]
             /\ task'[p].op.name = "create"
                => /\ task'[p].pc \in {"save_lock", "save_wait"}
                   /\ task'[p].data = <<task'[p].val>>
       /\ (task[p].absent /\ task[p].op.name = "create")
          => /\ (task[p].pc = "save_rename" /\ task'[p].pc = "save_stat")
                => fs'[FilePath] = Stringify(<<task[p].val>>, fs[TmpPath].mtime)
             /\ SaveReturnsOk(p) => task'[p].out.val = task[p].val]_vars

\* a create that found no file has returned and the file holds its record only
C16_Witness ==
  \E p \in Procs :
    /\ task[p].pc = "idle"
    /\ task[p].op.name = "create"
    /\ task[p].absent
    /\ task[p].out.status = "ok"
    /\ fs[FilePath].exists /\ fs[FilePath].complete
    /\ fs[FilePath].recs = <<task[p].out.val>>

\* ---- C17 ------------------------------------------------------------
\* C17: when the save inside create throws, the new record is neither in the
\* file nor in the cache nor in the indexes (stated for records whose id the
\* engine generated).
C17_FailedCreateInvisible ==
  [][\A p \in Procs :
       (SaveThrows(p) /\ task[p].op.name = "create" /\ ~HasField(task[p].op.arg, "id"))
       => /\ IndexOfId(Parse(fs'[FilePath]), task[p].val.id) = 0
          /\ IndexOfId(cache'.recs, task[p].val.id) = 0
          /\ \A v \in Values :
               IndexOfId(IndexLookup(indexes', "f", v), task[p].val.id) = 0]_vars

\* ---- C18 ------------------------------------------------------------
\* C18: getStorage before any initStorage throws, and asking a manager for a
\* name that init did not configure throws its 'not found' error (stated for
\* names that no object inherits).
C18_FailFast ==
  /\ storageInstance = 0
     => \A c \in Handlers :
          req[c].pc = "idle" /\ req[c].out \in {"none", "not_initialized"}
  /\ \A c \in Handlers :
       ( /\ req[c].pc = "idle"
         /\ req[c].name # ""
         /\ req[c].name \notin Configured \cup Inherited )
       => req[c].out = "not_found"

\* ---- C19 ------------------------------------------------------------
\* C19: one Storage is ever made, every getStorage returns it, and no two
\* Collection objects have the same file.
C19_OneManager ==
  /\ Len(storages) <= 1
  /\ \A c, d \in Handlers :
       (req[c].storage # 0 /\ req[d].storage # 0) => req[c].storage = req[d].storage
  /\ \A i, j \in DOMAIN colls : i # j => colls[i].filePath # colls[j].filePath

\* ---- C20 ------------------------------------------------------------
InSection(r) == r.pc \in {"load", "save_write", "save_rename"}
Waits(r) == r.pc \in {"load_wait", "save_wait"}

\* the Collection a handler's step works on
Touched(c) == IF req'[c].coll # 0 THEN req'[c].coll ELSE req[c].coll

\* C20: a step of an operation on one collection leaves the Collection
\* objects, the mutexes and the files of every collection of another name as
\* they are, and a handler only ever waits for a handler inside a section of
\* the same Collection object.
C20_CollectionsIndependent ==
  [][/\ \A c \in Handlers :
          (req'[c] # req[c] /\ Touched(c) # 0)
          => \A j \in DOMAIN colls :
               colls[j].name # colls[Touched(c)].name
               => /\ colls'[j] = colls[j]
                  /\ mutexes'[j] = mutexes[j]
                  /\ disk'[colls[j].filePath] = disk[colls[j].filePath]
                  /\ disk'[TmpOf(colls[j].filePath)] = disk[TmpOf(colls[j].filePath)]
     /\ \A c \in Handlers :
          Waits(req'[c])
          => \E d \in Handlers \ {c} :
               req'[d].coll = req'[c].coll /\ InSection(req'[d])]_vars

\* two handlers are inside save sections of two collections at once
C20_Witness ==
  /\ req[1].pc = "save_rename" /\ colls[req[1].coll].name = "users"
  /\ req[2].pc = "save_rename" /\ colls[req[2].coll].name = "orders"
  /\ req[1].storage = req[2].storage
  /\ mutexes[req[1].coll].locked /\ mutexes[req[2].coll].locked

\* ---- C21 ------------------------------------------------------------
\* C21: the bucket findByIndex returns is the bucket of the index rebuilt from
\* one complete array the file held at some point between the start of the
\* call and its return.
C21_ReaderSeesWholeIndex ==
  [][\A p \in Procs :
       FindByIndexReturns(p) =>
         task'[p].out.val \in {Bucket(X, "f", task'[p].op.v) : X \in task[p].seen}]_vars

\* ---- C22 ------------------------------------------------------------
CreateReturns(p) ==
  /\ task[p].pc \in SavePcs
  /\ task'[p].pc = "idle"
  /\ task'[p].op.name = "create"
  /\ task'[p].out.status = "ok"

\* C22: the record create returns has created_at equal to updated_at.
C22_CreatedEqualsUpdated ==
  [][\A p \in Procs :
       CreateReturns(p) =>
         task'[p].out.val.created_at = task'[p].out.val.updated_at]_vars

\* ---- C23 ------------------------------------------------------------
\* the reference list model: create appends at the end
RefCreate(s, r, rec) == r = Append(s, rec)

\* update replaces the record with that id in place
RefUpdate(s, r, id, rec) ==
  /\ Len(r) = Len(s)
  /\ \E k \in DOMAIN s :
       /\ s[k].id = id
       /\ r[k] = rec
       /\ \A j \in DOMAIN s \ {k} : r[j] = s[j]

\* delete removes the record with that id and keeps the order of the others
RefDelete(s, r, id) ==
  \E k \in DOMAIN s :
    /\ s[k].id = id
    /\ r = SubSeq(s, 1, k - 1) \o SubSeq(s, k + 1, Len(s))

MutatorReturns(p) ==
  /\ task[p].pc \in SavePcs
  /\ task'[p].pc = "idle"
  /\ task'[p].out.status = "ok"

FindAllReturns(p) ==
  /\ task[p].pc \in LoadPcs
  /\ task'[p].pc = "idle"
  /\ task'[p].op.name = "findAll"
  /\ task'[p].out.status = "ok"

\* C23: in a sequence of awaited calls every create, update and delete that
\* returns takes the file from the array it found to the array the list
\* model gives (append at the end, replace in place, remove keeping the
\* order), a call that finds no record leaves the file as it is, and findAll
\* returns the array of the file.
C23_MatchesListModel ==
  [][\A p \in Procs :
       /\ MutatorReturns(p) =>
            LET s == Parse(savePre.file)
                r == Parse(fs'[FilePath])
                op == task'[p].op
            IN CASE op.name = "create" -> RefCreate(s, r, task'[p].out.val)
                 [] op.name = "update" -> RefUpdate(s, r, op.id, task'[p].out.val)
                 [] op.name = "delete" -> RefDelete(s, r, op.id)
       /\ (task[p].pc \in LoadPcs /\ task'[p].pc \notin SavePcs \cup WaitPcs)
          => fs' = fs
       /\ FindAllReturns(p) => task'[p].out.val = Parse(fs'[FilePath])]_vars

\* two creates and then the delete of the first record: the two new records
\* are left in the order of their creation
C23_Witness ==
  /\ started = 3
  /\ task[1].pc = "idle"
  /\ task[1].op.name = "delete" /\ task[1].op.id = 0
  /\ task[1].out.status = "ok"
  /\ Len(FileRecs) = 2
  /\ FileRecs[1].id = 1 /\ FileRecs[2].id = 2

\* ------------------------------------------------------ the route handlers
\* Each awaited Collection call of a handler is one step: the handlers
\* interleave at their awaits, and the calls themselves are the ones that do
\* not overlap inside the Collection (Spec has the ones that do).

\* Collection.update(id, {status, ...}) on the array recs
SetStatus(recs, id, status) ==
  [i \in DOMAIN recs |->
     IF i = IndexOfId(recs, id)
     THEN [recs[i] EXCEPT !.status = status, !.rev = @ + 1]
     ELSE recs[i]]

\* Collection.findByIndex('order_id', id) / findByIndex('idempotency_key', key)
ByOrderId(recs, id) == SelectSeq(recs, LAMBDA r : r.order_id = id)
ByKey(recs, key) == SelectSeq(recs, LAMBDA r : r.idempotency_key = key)

\* Collection.findMany(o => o.program_id === id && o.status === 'pending')
PendingOrders(recs, id) ==
  SelectSeq(recs, LAMBDA o : o.program_id = id /\ o.status = "pending")

\* Collection.findOne(u => u.email === email), 1-based; 0 is null
IndexOfEmail(recs, email) ==
  IF \E i \in DOMAIN recs : recs[i].email = email
  THEN CHOOSE i \in DOMAIN recs :
         recs[i].email = email /\ \A j \in DOMAIN recs : recs[j].email = email => i <= j
  ELSE 0

\* payments.find(p => p.status === status), 1-based; 0 is undefined
IndexOfStatus(recs, status) ==
  IF \E i \in DOMAIN recs : recs[i].status = status
  THEN CHOOSE i \in DOMAIN recs :
         recs[i].status = status /\ \A j \in DOMAIN recs : recs[j].status = status => i <= j
  ELSE 0

\* res.status(code).json(...) or next(error): the handler is finished
Reply(h, code) ==
  handler' = [handler EXCEPT ![h].pc = "done", ![h].res = code]

At(h, pc) == handler[h].pc = pc
Goto(h, pc) == handler' = [handler EXCEPT ![h].pc = pc]

\* express dispatches a request to its route; handlers take the lowest free slot
Receive(h, route, pc, id, status, email) ==
  /\ handler[h].route = "none"
  /\ \A g \in Http : g < h => handler[g].route # "none"
  /\ handler' = [handler EXCEPT ![h] =
                   [IdleHandler EXCEPT !.route = route, !.pc = pc, !.id = id,
                                       !.status = status, !.email = email]]
  /\ UNCHANGED <<db, cvars, mvars>>

\* ---- POST /api/orders
ReceiveOrder(h) ==
  \E id \in ProgramIds : Receive(h, "orders", "orders_program", id, "", "")

\* program = await storage.programs.findById(program_id)
OrdersFindProgram(h) ==
  /\ At(h, "orders_program")
  /\ IF IndexOfId(db.programs, handler[h].id) = 0
     THEN Reply(h, 404)
     ELSE Goto(h, "orders_create")
  /\ UNCHANGED <<db, cvars, mvars>>

\* order = await storage.orders.create({program_id, ..., status: 'pending'})
OrdersCreate(h) ==
  /\ At(h, "orders_create")
  /\ db' = [db EXCEPT !.orders = Append(@, [id |-> db.next,
                                            program_id |-> handler[h].id,
                                            status |-> "pending", rev |-> 0]),
                      !.next = @ + 1]
  /\ handler' = [handler EXCEPT ![h].pc = "orders_payment", ![h].order = db.next]
  /\ UNCHANGED <<cvars, mvars>>

\* paymentIntent = await storage.payments.create({order_id, status: 'created',
\* idempotency_key}); the key is made from the order's id
OrdersCreatePayment(h) ==
  /\ At(h, "orders_payment")
  /\ db' = [db EXCEPT !.payments = Append(@, [id |-> db.next,
                                              order_id |-> handler[h].order,
                                              status |-> "created",
                                              idempotency_key |-> handler[h].order,
                                              rev |-> 0]),
                      !.next = @ + 1]
  /\ Reply(h, 201)
  /\ UNCHANGED <<cvars, mvars>>

\* ---- POST /api/payments/process
ReceiveProcess(h) ==
  \E id \in OrderIds : Receive(h, "process", "process_order", id, "", "")

\* order = await storage.orders.findById(order_id); 404 or 409 unless pending
ProcessFindOrder(h) ==
  LET i == IndexOfId(db.orders, handler[h].id) IN
  /\ At(h, "process_order")
  /\ IF i = 0 THEN Reply(h, 404)
     ELSE IF db.orders[i].status # "pending" THEN Reply(h, 409)
     ELSE Goto(h, "process_payments")
  /\ UNCHANGED <<db, cvars, mvars>>

\* payments = await storage.payments.findByIndex('order_id', order_id);
\* the intent is the first with status created; an earlier success is replied
ProcessFindPayments(h) ==
  LET payments == ByOrderId(db.payments, handler[h].id)
      i == IndexOfStatus(payments, "created")
  IN /\ At(h, "process_payments")
     /\ IF i = 0 THEN Reply(h, 404)
        ELSE IF IndexOfStatus(payments, "succeeded") # 0 THEN Reply(h, 200)
        ELSE handler' = [handler EXCEPT ![h].pc = "process_provider",
                                        ![h].found = payments[i].id]
     /\ UNCHANGED <<db, cvars, mvars>>

\* result = await paymentProvider.processPayment(payment): the simulator
\* waits and always succeeds
ProcessProvider(h) ==
  /\ At(h, "process_provider")
  /\ Goto(h, "process_pay")
  /\ UNCHANGED <<db, cvars, mvars>>

\* await storage.payments.update(payment.id, {status: 'succeeded', ...})
ProcessUpdatePayment(h) ==
  /\ At(h, "process_pay")
  /\ db' = [db EXCEPT !.payments = SetStatus(@, handler[h].found, "succeeded")]
  /\ Goto(h, "process_paid")
  /\ UNCHANGED <<cvars, mvars>>

\* await storage.orders.update(order_id, {status: 'paid', ...})
ProcessUpdateOrder(h) ==
  /\ At(h, "process_paid")
  /\ db' = [db EXCEPT !.orders = SetStatus(@, handler[h].id, "paid")]
  /\ Reply(h, 200)
  /\ UNCHANGED <<cvars, mvars>>

\* ---- POST /api/payments/webhook (with a valid signature)
ReceiveWebhook(h) ==
  \E key \in Keys, status \in WebhookStatuses :
    Receive(h, "webhook", "webhook_payments", key, status, "")

\* existingPayments = await storage.payments.findByIndex('idempotency_key', key);
\* unknown payments and payments in a final state are answered at once
WebhookFindPayments(h) ==
  LET existingPayments == ByKey(db.payments, handler[h].id) IN
  /\ At(h, "webhook_payments")
  /\ IF existingPayments = <<>> THEN Reply(h, 200)
     ELSE IF existingPayments[1].status \in Final THEN Reply(h, 200)
     ELSE handler' = [handler EXCEPT ![h].pc = "webhook_pay",
                                     ![h].found = existingPayments[1].id,
                                     ![h].order = existingPayments[1].order_id]
  /\ UNCHANGED <<db, cvars, mvars>>

\* await storage.payments.update(payment.id, {status, ...})
WebhookUpdatePayment(h) ==
  /\ At(h, "webhook_pay")
  /\ db' = [db EXCEPT !.payments = SetStatus(@, handler[h].found, handler[h].status)]
  /\ IF handler[h].status = "succeeded" THEN Goto(h, "webhook_paid")
     ELSE Reply(h, 200)
  /\ UNCHANGED <<cvars, mvars>>

\* await storage.orders.update(payment.order_id, {status: 'paid', ...})
WebhookUpdateOrder(h) ==
  /\ At(h, "webhook_paid")
  /\ db' = [db EXCEPT !.orders = SetStatus(@, handler[h].order, "paid")]
  /\ Reply(h, 200)
  /\ UNCHANGED <<cvars, mvars>>

\* ---- POST /api/orders/:id/cancel (by an admin)
ReceiveCancel(h) ==
  \E id \in OrderIds : Receive(h, "cancel", "cancel_order", id, "", "")

\* order = await storage.orders.findById(id); 404 or 409 unless pending
CancelFindOrder(h) ==
  LET i == IndexOfId(db.orders, handler[h].id) IN
  /\ At(h, "cancel_order")
  /\ IF i = 0 THEN Reply(h, 404)
     ELSE IF db.orders[i].status # "pending" THEN Reply(h, 409)
     ELSE Goto(h, "cancel_update")
  /\ UNCHANGED <<db, cvars, mvars>>

\* await storage.orders.update(id, {status: 'cancelled', ...})
CancelUpdateOrder(h) ==
  /\ At(h, "cancel_update")
  /\ db' = [db EXCEPT !.orders = SetStatus(@, handler[h].id, "cancelled")]
  /\ Goto(h, "cancel_payments")
  /\ UNCHANGED <<cvars, mvars>>

\* payments = await storage.payments.findByIndex('order_id', id)
CancelFindPayments(h) ==
  LET payments == ByOrderId(db.payments, handler[h].id) IN
  /\ At(h, "cancel_payments")
  /\ IF payments = <<>> THEN Reply(h, 200)
     ELSE handler' = [handler EXCEPT ![h].pc = "cancel_payment",
                                     ![h].found = payments[1].id]
  /\ UNCHANGED <<db, cvars, mvars>>

\* await storage.payments.update(payments[0].id, {status: 'failed'})
CancelUpdatePayment(h) ==
  /\ At(h, "cancel_payment")
  /\ db' = [db EXCEPT !.payments = SetStatus(@, handler[h].found, "failed")]
  /\ Reply(h, 200)
  /\ UNCHANGED <<cvars, mvars>>

\* ---- POST /api/auth/register
ReceiveRegister(h) ==
  \E email \in Emails : Receive(h, "register", "register_find", 0, "", email)

\* existingUser = await storage.users.findOne(u => u.email === email)
RegisterFindOne(h) ==
  /\ At(h, "register_find")
  /\ IF IndexOfEmail(db.users, handler[h].email) # 0
     THEN Reply(h, 409)
     ELSE Goto(h, "register_hash")
  /\ UNCHANGED <<db, cvars, mvars>>

\* password_hash = await bcrypt.hash(password, config.bcryptRounds)
RegisterHash(h) ==
  /\ At(h, "register_hash")
  /\ Goto(h, "register_create")
  /\ UNCHANGED <<db, cvars, mvars>>

\* user = await storage.users.create({email, ...})
RegisterCreate(h) ==
  /\ At(h, "register_create")
  /\ db' = [db EXCEPT !.users = Append(@, [id |-> db.next,
                                           email |-> handler[h].email]),
                      !.next = @ + 1]
  /\ Reply(h, 201)
  /\ UNCHANGED <<cvars, mvars>>

\* ---- DELETE /api/programs/:id (by an admin)
ReceiveDelete(h) ==
  \E id \in ProgramIds : Receive(h, "delete", "delete_program", id, "", "")

\* program = await storage.programs.findById(id)
DeleteFindProgram(h) ==
  /\ At(h, "delete_program")
  /\ IF IndexOfId(db.programs, handler[h].id) = 0
     THEN Reply(h, 404)
     ELSE Goto(h, "delete_pending")
  /\ UNCHANGED <<db, cvars, mvars>>

\* pendingOrders = await storage.orders.findMany(...); 403 if there are any
DeleteFindPending(h) ==
  /\ At(h, "delete_pending")
  /\ IF PendingOrders(db.orders, handler[h].id) # <<>>
     THEN Reply(h, 403)
     ELSE Goto(h, "delete_delete")
  /\ UNCHANGED <<db, cvars, mvars>>

\* await storage.programs.delete(id)
DeleteProgram(h) ==
  LET i == IndexOfId(db.programs, handler[h].id) IN
  /\ At(h, "delete_delete")
  /\ db' = [db EXCEPT !.programs = IF i = 0 THEN @ ELSE RemoveAt(@, i)]
  /\ Reply(h, 200)
  /\ UNCHANGED <<cvars, mvars>>

AppNext ==
  \/ \E h \in Http : ReceiveOrder(h)
  \/ \E h \in Http : OrdersFindProgram(h)
  \/ \E h \in Http : OrdersCreate(h)
  \/ \E h \in Http : OrdersCreatePayment(h)
  \/ \E h \in Http : ReceiveProcess(h)
  \/ \E h \in Http : ProcessFindOrder(h)
  \/ \E h \in Http : ProcessFindPayments(h)
  \/ \E h \in Http : ProcessProvider(h)
  \/ \E h \in Http : ProcessUpdatePayment(h)
  \/ \E h \in Http : ProcessUpdateOrder(h)
  \/ \E h \in Http : ReceiveWebhook(h)
  \/ \E h \in Http : WebhookFindPayments(h)
  \/ \E h \in Http : WebhookUpdatePayment(h)
  \/ \E h \in Http : WebhookUpdateOrder(h)
  \/ \E h \in Http : ReceiveCancel(h)
  \/ \E h \in Http : CancelFindOrder(h)
  \/ \E h \in Http : CancelUpdateOrder(h)
  \/ \E h \in Http : CancelFindPayments(h)
  \/ \E h \in Http : CancelUpdatePayment(h)
  \/ \E h \in Http : ReceiveRegister(h)
  \/ \E h \in Http : RegisterFindOne(h)
  \/ \E h \in Http : RegisterHash(h)
  \/ \E h \in Http : RegisterCreate(h)
  \/ \E h \in Http : ReceiveDelete(h)
  \/ \E h \in Http : DeleteFindProgram(h)
  \/ \E h \in Http : DeleteFindPending(h)
  \/ \E h \in Http : DeleteProgram(h)

SpecApp == Init /\ [][AppNext]_vars

\* ---- C24 ------------------------------------------------------------
UpsertReturns(p) ==
  /\ task[p].pc # "idle"
  /\ task'[p].pc = "idle"
  /\ task'[p].op.upsert
  /\ task'[p].out.status = "ok"

\* C24: an upsert that returns returns a record, never null, also when a
\* delete runs between its load and the update or create it calls.
C24_UpsertReturnsRecord ==
  [][\A p \in Procs : UpsertReturns(p) => task'[p].out.val # Null]_vars

\* ---- C25 ------------------------------------------------------------
\* the order of save's steps as positions of the caller
SaveOrder ==
  {<<"save_lock", "save_write">>, <<"save_write", "save_writing">>,
   <<"save_writing", "save_rename">>, <<"save_rename", "save_stat">>,
   <<"save_stat", "save_unlock">>, <<"save_unlock", "idle">>,
   <<"save_writing", "save_unlock">>, <<"save_rename", "save_unlock">>}

\* save leaves without a file lock to release
LeavesUnlocked(p) ==
  /\ task[p].pc \in {"save_writing", "save_rename", "save_stat"}
  /\ task'[p].pc = "idle"
  /\ ~task[p].release

\* C25: a caller inside save holds the mutex and goes through lock attempt,
\* temp write, rename, cache/time/index update, file unlock, mutex release in
\* that order; only the rename changes the canonical file, the cache changes
\* only in the step where the rename succeeded, the recorded time and the
\* indexes only after it, and the mutex is not released while the file lock
\* is still held.
C25_SaveStepOrder ==
  [][RestartStep \/
     \A p \in Procs :
       (task[p].pc \in SavePcs /\ task'[p].pc # task[p].pc) =>
         /\ locked
         /\ <<task[p].pc, task'[p].pc>> \in SaveOrder \/ LeavesUnlocked(p)
         /\ fs'[FilePath] # fs[FilePath] =>
              /\ task[p].pc = "save_rename" /\ task'[p].pc = "save_stat"
              /\ fs'[FilePath] = fs[TmpPath]
         /\ cache' # cache =>
              /\ task[p].pc = "save_rename" /\ task'[p].pc = "save_stat"
              /\ Text(fs'[FilePath]) = savePre.new
         /\ (indexes' # indexes \/ lastModified' # lastModified) =>
              /\ task[p].pc = "save_stat"
              /\ Text(fs[FilePath]) = savePre.new
              /\ cache = SavedCache(p)
         /\ task'[p].pc = "save_unlock" => task[p].release
         /\ task'[p].pc = "idle" =>
              (task[p].pc = "save_unlock" \/ ~task[p].release)]_vars

\* a save that changed the file, the cache and the indexes is about to
\* release the file lock it holds
C25_Witness ==
  \E p \in Procs :
    /\ task[p].pc = "save_unlock"
    /\ ~task[p].thrown
    /\ Text(fs[FilePath]) = savePre.new
    /\ Text(savePre.file) # savePre.new
    /\ cache = SavedCache(p)
    /\ indexes = BuildIndexes(task[p].data)
    /\ indexes # savePre.indexes

\* ---- C27 ------------------------------------------------------------
\* caller p's delete(id) has returned true
Deleted(p) ==
  /\ task[p].pc = "idle"
  /\ task[p].op.name = "delete"
  /\ task[p].out.status = "ok"
  /\ task[p].out.val

\* C27: once delete(id) has returned true the file does not contain a record
\* with that id, whatever update calls that loaded before the delete saved do
\* afterwards (stated while no call creates a record under that id).
C27_DeletedStaysDeleted ==
  \A p \in Procs :
    ( /\ Deleted(p)
      /\ started = Cardinality(Calls)
      /\ \A q \in Procs \ {p} : task[q].op.name \in {"none", "update"} )
    => IndexOfId(FileRecs, task[p].op.id) = 0

\* ---- C26 ------------------------------------------------------------
\* handler h takes a step of the webhook route for a payment in a final state
WebhookOnFinal(h) ==
  /\ handler[h].route = "webhook"
  /\ handler'[h].pc # handler[h].pc
  /\ LET existingPayments == ByKey(db.payments, handler[h].id) IN
       existingPayments # <<>> /\ existingPayments[1].status \in Final

\* C26: a payment whose stored status is succeeded or failed keeps that status
\* in every step, and a webhook step for such a payment leaves the payments
\* as they are.
C26_PaymentFinal ==
  [][/\ \A i \in DOMAIN db.payments :
          db.payments[i].status \in Final =>
            db'.payments[i].status = db.payments[i].status
     /\ \A h \in Http : WebhookOnFinal(h) => db'.payments = db.payments]_vars

\* ---- C28 ------------------------------------------------------------
\* C28: an order's status changes only from pending to paid or from pending
\* to cancelled.
C28_OrderTransitions ==
  [][\A i \in DOMAIN db.orders :
       db'.orders[i].status # db.orders[i].status =>
         /\ db.orders[i].status = "pending"
         /\ db'.orders[i].status \in {"paid", "cancelled"}]_vars

\* ---- C29 ------------------------------------------------------------
\* C29: no two users have the same email, and at most one registration per
\* email is answered 201.
C29_UniqueEmail ==
  /\ \A i, j \in DOMAIN db.users :
       db.users[i].email = db.users[j].email => i = j
  /\ \A e \in Emails :
       Cardinality({h \in Http : /\ handler[h].route = "register"
                                 /\ handler[h].email = e
                                 /\ handler[h].res = 201}) <= 1

\* ---- C30 ------------------------------------------------------------
\* C30: every order with status pending references a program that is in the
\* programs collection.
C30_PendingOrderHasProgram ==
  \A i \in DOMAIN db.orders :
    db.orders[i].status = "pending" =>
      IndexOfId(db.programs, db.orders[i].program_id) # 0

=============================================================================
